---- MODULE Spec2Model ----
(***************************************************************************)
(* A model of the WhatsApp MCP server (src/src/index.ts): three tools      *)
(* registered on an MCP dispatcher, an AppleScript runner that shells out  *)
(* to osascript, a best-effort error log and the startup sequence.         *)
(*                                                                         *)
(* Text is modelled as a sequence of tokens.  A token is either one        *)
(* character (everything that comes from the caller, and every quoting     *)
(* character of the templates) or a fragment of a template that holds no   *)
(* quote, no backslash and no line break.  Indentation and blank lines of  *)
(* the script templates are left out.                                      *)
(***************************************************************************)
EXTENDS Integers, Sequences, FiniteSets, TLC

\* ---------------------------------------------------------------- bounds
MaxLen == 2
MaxNameLen == 1
MaxEvents == 2
MaxPad == 1

\* ------------------------------------------------------------ characters
DQ == "\""
SQ == "'"
BS == "\\"
NL == "\n"
SP == " "

\* The characters a caller's text is drawn from: one ordinary character and
\* the four characters the two quoting layers have to deal with.
Alphabet == {"x", DQ, SQ, BS, NL}

\* Characters that mean nothing to the shell when they stand outside quotes.
PlainChars == {"x"}

RECURSIVE StringsOfLen(_)
StringsOfLen(n) ==
    IF n = 0 THEN {<<>>}
    ELSE {Append(s, c) : s \in StringsOfLen(n - 1), c \in Alphabet}

Strings(n) == UNION {StringsOfLen(k) : k \in 0..n}

\* --------------------------------------------------- String.prototype.*
\* s.replace(/c/g, r) for a one-character pattern c: every occurrence is
\* replaced, left to right, and the replacement text is not scanned again.
\* (Here and in the folds below the range lo..hi is halved and the left half
\* is evaluated before the right one, which keeps the evaluation shallow.)
RECURSIVE ReplaceRange(_, _, _, _, _)
ReplaceRange(s, c, r, lo, hi) ==
    IF lo > hi THEN <<>>
    ELSE IF lo = hi THEN (IF s[lo] = c THEN r ELSE <<s[lo]>>)
    ELSE LET mid == (lo + hi) \div 2
         IN ReplaceRange(s, c, r, lo, mid) \o ReplaceRange(s, c, r, mid + 1, hi)

ReplaceAll(s, c, r) == ReplaceRange(s, c, r, 1, Len(s))

WhiteSpace == {SP, NL}

RECURSIVE TrimStart(_)
TrimStart(s) ==
    IF s # <<>> /\ Head(s) \in WhiteSpace THEN TrimStart(Tail(s)) ELSE s

RECURSIVE TrimEnd(_)
TrimEnd(s) ==
    IF s # <<>> /\ s[Len(s)] \in WhiteSpace
    THEN TrimEnd(SubSeq(s, 1, Len(s) - 1)) ELSE s

\* stdout.trim()
Trim(s) == TrimEnd(TrimStart(s))

LowerOf(c) ==
    CASE c = "T" -> "t"
      [] c = "R" -> "r"
      [] c = "U" -> "u"
      [] c = "E" -> "e"
      [] c = "F" -> "f"
      [] OTHER -> c

\* result.toLowerCase()
ToLowerCase(s) == [i \in 1..Len(s) |-> LowerOf(s[i])]

\* ------------------------------------------------------ script building
\* The line-break text formatWhatsAppMessage puts in place of a newline.
LineBreakIdiom == <<DQ, " & return & ", DQ>>

\* contactName.replace(/"/g, '\\"')
EscapeQuotes(s) == ReplaceAll(s, DQ, <<BS, DQ>>)

formatWhatsAppMessage(message) ==
    ReplaceAll(ReplaceAll(message, NL, LineBreakIdiom), DQ, <<BS, DQ>>)

\* The template of the keyboard-shortcut revision, around the two literals.
KeyboardScript(contactLiteral, messageLiteral) ==
    <<NL,
      "tell application ", DQ, "WhatsApp", DQ, " to activate", NL,
      "delay 1 -- Reduced from 4 to 1", NL,
      "tell application ", DQ, "System Events", DQ, NL,
      "tell process ", DQ, "WhatsApp", DQ, NL,
      "-- Access the search field", NL,
      "try", NL,
      "-- Keyboard shortcut for search", NL,
      "keystroke ", DQ, "f", DQ, " using {command down}", NL,
      "delay 0.5 -- Reduced from 2 to 0.5", NL,
      "-- Clear any existing text", NL,
      "keystroke ", DQ, "a", DQ, " using {command down}", NL,
      "keystroke (ASCII character 8) -- Backspace", NL,
      "delay 0.5 -- Reduced from 1.5 to 0.5", NL,
      "-- Type the contact name", NL,
      "keystroke ", DQ>> \o contactLiteral \o <<DQ, NL,
      "-- Give time for search results to populate", NL,
      "delay 1.5 -- Reduced from 6 to 1.5", NL,
      "-- Contact selection method", NL,
      "keystroke (ASCII character 31) -- first down arrow", NL,
      "delay 0.3 -- Reduced from 1 to 0.3", NL,
      "keystroke (ASCII character 31) -- second down arrow", NL,
      "delay 0.3 -- Reduced from 1 to 0.3", NL,
      "keystroke return -- press enter", NL,
      "delay 0.8 -- Reduced from 3 to 0.8", NL,
      "-- Type and send the message", NL,
      "keystroke ", DQ>> \o messageLiteral \o <<DQ, NL,
      "delay 0.5 -- Reduced from 2 to 0.5", NL,
      "-- Send the message", NL,
      "keystroke return", NL,
      "delay 0.3 -- Reduced from 1 to 0.3", NL,
      "return ", DQ, "Message sent using optimized timing", DQ, NL,
      "on error errMsg", NL,
      "return ", DQ, "Failed to send message: ", DQ, " & errMsg", NL,
      "end try", NL,
      "end tell", NL,
      "end tell", NL>>

\* The template of the element-addressing revision.
ElementScript(contactLiteral, messageLiteral) ==
    <<NL,
      "tell application ", DQ, "WhatsApp", DQ, " to activate", NL,
      "delay 1.5", NL,
      "tell application ", DQ, "System Events", DQ, NL,
      "tell process ", DQ, "WhatsApp", DQ, NL,
      "-- Click on the search field first to ensure focus", NL,
      "-- Use UI elements instead of keyboard shortcuts to avoid emoji panel", NL,
      "try", NL,
      "-- First try to directly click on the search field if we can find it", NL,
      "click text field ", DQ, "Search or start new chat", DQ, NL,
      "on error", NL,
      "-- If that fails, try clicking near the top of the window where search usually is", NL,
      "set frontWindow to front window", NL,
      "set winPosition to position of frontWindow", NL,
      "set winSize to size of frontWindow", NL,
      "-- Calculate a position likely to be the search field (top portion of window)", NL,
      "set searchX to (item 1 of winPosition) + (item 1 of winSize) / 2", NL,
      "set searchY to (item 2 of winPosition) + 40 -- Approximately where search is", NL,
      "click at {searchX, searchY}", NL,
      "delay 0.3", NL,
      "-- Clear any existing text", NL,
      "keystroke ", DQ, "a", DQ, " using {command down}", NL,
      "keystroke (ASCII character 8) -- Backspace", NL,
      "end try", NL,
      "delay 0.5", NL,
      "-- Type the contact name", NL,
      "keystroke ", DQ>> \o contactLiteral \o <<DQ, NL,
      "delay 1.5", NL,
      "-- Press Enter to select the first contact from search results", NL,
      "key code 36", NL,
      "delay 1", NL,
      "-- Type and send the message with proper line breaks", NL,
      "keystroke ", DQ>> \o messageLiteral \o <<DQ, NL,
      "delay 0.5", NL,
      "key code 36 -- Press Enter to send", NL,
      "end tell", NL,
      "end tell", NL>>

Revisions == {"keyboard", "element"}

\* The template filled with the two texts in each other's place.
SendScriptSwapped(revision, contactName, message) ==
    IF revision = "keyboard"
    THEN KeyboardScript(formatWhatsAppMessage(message), EscapeQuotes(contactName))
    ELSE ElementScript(formatWhatsAppMessage(message), EscapeQuotes(contactName))

\* The appleScript template string of the send-whatsapp-message handler.
SendScript(revision, contactName, message) ==
    IF revision = "keyboard"
    THEN KeyboardScript(EscapeQuotes(contactName), formatWhatsAppMessage(message))
    ELSE ElementScript(EscapeQuotes(contactName), formatWhatsAppMessage(message))

\* The appleScript template string of the check-whatsapp-status handler.
ProbeScript ==
    <<NL,
      "tell application ", DQ, "System Events", DQ, NL,
      "return (exists process ", DQ, "WhatsApp", DQ, ")", NL,
      "end tell", NL>>

\* The quoting that puts a backslash before each single quote.
ShellQuoteBackslash(script) == ReplaceAll(script, SQ, <<BS, SQ>>)

\* script.replace(/'/g, "'\\''")
ShellQuote(script) == ReplaceAll(script, SQ, <<SQ, BS, SQ, SQ>>)

\* `osascript -e '${...}'`: the command line handed to exec.
CommandLine(script) == <<"osascript -e ", SQ>> \o ShellQuote(script) \o <<SQ>>

\* --------------------------------------------- the two reading layers
\* How /bin/sh reads the word that follows `osascript -e `.  Between single
\* quotes every character stands for itself; outside them a backslash
\* quotes the next character (a backslash-newline is a line continuation),
\* a plain character joins the word, and any other character is read by the
\* shell as syntax: the text has left the literal.
ShellStart == [mode |-> "plain", ok |-> TRUE, arg |-> <<>>]

ShellRead(st, t) ==
    CASE st.mode = "quoted" ->
           IF t = SQ THEN [st EXCEPT !.mode = "plain"]
           ELSE [st EXCEPT !.arg = Append(@, t)]
      [] st.mode = "escape" ->
           IF t = NL THEN [st EXCEPT !.mode = "plain"]
           ELSE [st EXCEPT !.mode = "plain", !.arg = Append(@, t)]
      [] OTHER ->
           IF t = SQ THEN [st EXCEPT !.mode = "quoted"]
           ELSE IF t = BS THEN [st EXCEPT !.mode = "escape"]
           ELSE [st EXCEPT !.ok = @ /\ t \in PlainChars, !.arg = Append(@, t)]

RECURSIVE ShellFold(_, _, _, _)
ShellFold(s, lo, hi, st) ==
    IF lo > hi THEN st
    ELSE IF lo = hi THEN ShellRead(st, s[lo])
    ELSE LET mid == (lo + hi) \div 2
             left == ShellFold(s, lo, mid, st)
         IN IF left.ok \in BOOLEAN THEN ShellFold(s, mid + 1, hi, left) ELSE left

\* The argument osascript receives for a command line built by CommandLine:
\* ok (the word is one closed literal) and arg (the argument passed).
ShellArgument(command) ==
    LET end == ShellFold(command, 2, Len(command), ShellStart)
    IN [ok |-> end.ok /\ end.mode # "quoted",
        arg |-> IF end.mode = "escape" THEN Append(end.arg, BS) ELSE end.arg]

\* How the scripting language reads a script: outside a string literal a
\* double quote opens a literal and every other token is code; inside one,
\* backslash-quote and backslash-backslash are escapes, any other escape is
\* a syntax error, a double quote closes the literal and every other
\* character (a raw line break too) belongs to the text.
\* The lexemes are [k |-> "code" or "str", v |-> tokens].
LexStart == [mode |-> "code", cur |-> <<>>, lexemes |-> <<>>]

LexRead(st, t) ==
    CASE st.mode = "code" ->
           IF t = DQ THEN [st EXCEPT !.mode = "str", !.cur = <<>>]
           ELSE [st EXCEPT !.lexemes = Append(@, [k |-> "code", v |-> <<t>>])]
      [] st.mode = "str" ->
           IF t = DQ
           THEN [mode |-> "code", cur |-> <<>>,
                 lexemes |-> Append(st.lexemes, [k |-> "str", v |-> st.cur])]
           ELSE IF t = BS THEN [st EXCEPT !.mode = "escape"]
           ELSE [st EXCEPT !.cur = Append(@, t)]
      [] st.mode = "escape" ->
           IF t \in {DQ, BS} THEN [st EXCEPT !.mode = "str", !.cur = Append(@, t)]
           ELSE [st EXCEPT !.mode = "error"]
      [] OTHER -> st

RECURSIVE LexFold(_, _, _, _)
LexFold(s, lo, hi, st) ==
    IF lo > hi THEN st
    ELSE IF lo = hi THEN LexRead(st, s[lo])
    ELSE LET mid == (lo + hi) \div 2
             left == LexFold(s, lo, mid, st)
         IN IF left.mode = "error" THEN left ELSE LexFold(s, mid + 1, hi, left)

Lex(script) ==
    LET end == LexFold(script, 1, Len(script), LexStart)
    IN [ok |-> end.mode = "code", lexemes |-> end.lexemes]

LineEnd == [k |-> "code", v |-> <<NL>>]
Ampersand == [k |-> "code", v |-> <<" & return & ">>]
Keystroke == [k |-> "code", v |-> <<"keystroke ">>]

\* The statements of a lexed script: the runs of lexemes between line ends,
\* in order (cur is the statement being read, done the ones read).
StatementStart == [cur |-> <<>>, done |-> <<>>]

StatementRead(st, lexeme) ==
    IF lexeme # LineEnd THEN [st EXCEPT !.cur = Append(@, lexeme)]
    ELSE IF st.cur = <<>> THEN st
    ELSE [cur |-> <<>>, done |-> Append(st.done, st.cur)]

RECURSIVE StatementFold(_, _, _, _)
StatementFold(lexemes, lo, hi, st) ==
    IF lo > hi THEN st
    ELSE IF lo = hi THEN StatementRead(st, lexemes[lo])
    ELSE LET mid == (lo + hi) \div 2
             left == StatementFold(lexemes, lo, mid, st)
         IN IF Len(left.done) >= 0
            THEN StatementFold(lexemes, mid + 1, hi, left) ELSE left

Statements(lexemes) ==
    LET end == StatementFold(lexemes, 1, Len(lexemes), StatementStart)
    IN IF end.cur = <<>> THEN end.done ELSE Append(end.done, end.cur)

\* A string expression: literal (& return & literal)*, from position i.
RECURSIVE IsStringExpr(_, _)
IsStringExpr(st, i) ==
    /\ i <= Len(st)
    /\ st[i].k = "str"
    /\ \/ i = Len(st)
       \/ /\ i + 1 < Len(st)
          /\ st[i + 1] = Ampersand
          /\ IsStringExpr(st, i + 2)

\* Its value: the literals joined by line breaks.
RECURSIVE StringValue(_, _)
StringValue(st, i) ==
    IF i = Len(st) THEN st[i].v
    ELSE st[i].v \o <<NL>> \o StringValue(st, i + 2)

\* What a statement does: `keystroke <string expression>` types a text;
\* every other statement is kept as it was read.
Step(st) ==
    IF Len(st) >= 2 /\ st[1] = Keystroke /\ IsStringExpr(st, 2)
    THEN [op |-> "type", text |-> StringValue(st, 2), code |-> <<>>]
    ELSE [op |-> "run", text |-> <<>>, code |-> st]

SyntaxError == <<[op |-> "syntax error", text |-> <<>>, code |-> <<>>]>>

\* What osascript does with a script: the steps it runs, in order.
Interpret(script) ==
    LET lx == Lex(script) IN
    IF ~lx.ok THEN SyntaxError
    ELSE LET sts == Statements(lx.lexemes) IN
         [n \in 1..Len(sts) |-> Step(sts[n])]

\* The texts a run types, in order.
TypedTexts(steps) ==
    LET F[n \in 0..Len(steps)] ==
          IF n = 0 THEN <<>>
          ELSE IF steps[n].op = "type" THEN Append(F[n - 1], steps[n].text)
          ELSE F[n - 1]
    IN F[Len(steps)]

\* The steps of each template when its two literals hold harmless texts.
KeyboardSteps == Interpret(KeyboardScript(<<"#contact">>, <<"#message">>))
ElementSteps == Interpret(ElementScript(<<"#contact">>, <<"#message">>))

\* The steps the handler means the script to run: those of the template with
\* the two literals typing exactly the caller's texts.
IntendedSteps(revision, contactName, message) ==
    LET steps == IF revision = "keyboard" THEN KeyboardSteps ELSE ElementSteps
    IN [n \in 1..Len(steps) |->
          IF steps[n].op = "type" /\ steps[n].text = <<"#contact">>
          THEN [steps[n] EXCEPT !.text = contactName]
          ELSE IF steps[n].op = "type" /\ steps[n].text = <<"#message">>
          THEN [steps[n] EXCEPT !.text = message]
          ELSE steps[n]]

\* ---------------------------------------------------------------- state
VARIABLES
    revision,     \* which revision of index.ts runs: "keyboard" or "element"
    startup,      \* main(): "connecting", "connected" or "failed"
    handlers,     \* the process.on handlers of main() are registered
    exitTimer,    \* a setTimeout(() => process.exit(1), 1000) is pending
    exit,         \* <<>> while the process lives, <<code>> once it has exited
    channelOpen,  \* the stdio transport has not been closed by the host
    console,      \* the lines written by console.error, in order
    logDir,       \* ~/Library/Logs/whatsapp-mcp exists
    logFile,      \* the lines of error.log, in order
    requests,     \* the tool calls received, in arrival order
    subprocs,     \* the osascript subprocesses started, in start order
    responses,    \* the settled tool calls, in completion order
    refusals      \* the tool calls refused for their arguments, in arrival order

vars == <<revision, startup, handlers, exitTimer, exit, channelOpen, console,
          logDir, logFile, requests, subprocs, responses, refusals>>

procVars == <<startup, handlers, exitTimer, exit, channelOpen>>
logVars == <<console, logDir, logFile>>
toolVars == <<requests, subprocs, responses, refusals>>

Alive == exit = <<>>
Serving == Alive /\ startup = "connected"

\* ------------------------------------------------------------- logError
\* A falsy error value (undefined, or the empty string).
Falsy == ""

\* Where a call of logError can meet an I/O or serialization failure.
LogFaults == {"none", "existsSync", "mkdirSync", "stringify", "appendFileSync"}

ErrorLine(message, error) == <<"ERROR: ", message, error>>
FailedWriteLine(fault) == <<"Failed to write to log file:", fault>>
LogEntry(message, error) ==
    <<"<timestamp>", " - ", message, " ",
      IF error # Falsy THEN <<"JSON.stringify", error>> ELSE <<>> >>

\* The statement of the try block that throws under the given fault, if any:
\* mkdirSync runs only when the directory is missing and JSON.stringify only
\* for a truthy error.
Thrown(log, error, fault) ==
    CASE fault = "existsSync" -> TRUE
      [] fault = "mkdirSync" -> ~log.logDir
      [] fault = "stringify" -> error # Falsy
      [] fault = "appendFileSync" -> TRUE
      [] OTHER -> FALSE

\* logError with JSON.stringify moved out of the try block.
logErrorUnguarded(log, message, error, fault) ==
    LET line == Append(log.console, ErrorLine(message, error))
        made == log.logDir \/ fault \notin {"existsSync", "mkdirSync"}
    IN IF fault = "stringify" /\ error # Falsy
       THEN [console |-> line, logDir |-> log.logDir, logFile |-> log.logFile,
             threw |-> TRUE]
       ELSE IF Thrown(log, error, fault)
       THEN [console |-> Append(line, FailedWriteLine(fault)),
             logDir |-> made, logFile |-> log.logFile, threw |-> FALSE]
       ELSE [console |-> line, logDir |-> TRUE,
             logFile |-> Append(log.logFile, LogEntry(message, error)),
             threw |-> FALSE]

\* logError(message, error) called in log state `log` (console, logDir,
\* logFile).  The result is the log state after the call and whether the call
\* threw.
logError(log, message, error, fault) ==
    LET line == Append(log.console, ErrorLine(message, error))
        made == log.logDir \/ fault \notin {"existsSync", "mkdirSync"}
    IN IF Thrown(log, error, fault)
       THEN [console |-> Append(line, FailedWriteLine(fault)),
             logDir |-> made, logFile |-> log.logFile, threw |-> FALSE]
       ELSE [console |-> line, logDir |-> TRUE,
             logFile |-> Append(log.logFile, LogEntry(message, error)),
             threw |-> FALSE]

Log == [console |-> console, logDir |-> logDir, logFile |-> logFile]

SetLog(l) ==
    /\ console' = l.console
    /\ logDir' = l.logDir
    /\ logFile' = l.logFile

IsErrorLine(line) == line[1] = "ERROR: "
IsFailedWrite(line) == line[1] = "Failed to write to log file:"
NumLogCalls == Cardinality({i \in DOMAIN console : IsErrorLine(console[i])})

\* ------------------------------------------------------------- startup
\* The module body and main() up to `await server.connect(transport)`.
Init ==
    /\ revision \in Revisions
    /\ startup = "connecting"
    /\ handlers = FALSE
    /\ exitTimer = FALSE
    /\ exit = <<>>
    /\ channelOpen = TRUE
    /\ console = << <<"Setting up MCP server...">>,
                    <<"MCP server created successfully">>,
                    <<"Initializing WhatsApp MCP Server">>,
                    <<"Starting WhatsApp MCP Server...">> >>
    /\ logDir \in BOOLEAN
    /\ logFile = <<>>
    /\ requests = <<>>
    /\ subprocs = <<>>
    /\ responses = <<>>
    /\ refusals = <<>>

\* server.connect resolves: main() logs and registers the process handlers.
ConnectOK ==
    /\ Alive /\ startup = "connecting"
    /\ startup' = "connected"
    /\ handlers' = TRUE
    /\ console' = Append(console, <<"WhatsApp MCP Server is running">>)
    /\ UNCHANGED <<revision, exitTimer, exit, channelOpen, logDir, logFile, toolVars>>

\* main().catch: reached only when the catch block of main() itself throws.
FatalInMain(log, error) ==
    LET l == logError(log, "Fatal error in main", error, "none")
    IN /\ SetLog(l)
       /\ exitTimer' = TRUE

\* The catch block of main() without its setTimeout.
ConnectFailNoTimer(error, fault) ==
    /\ Alive /\ startup = "connecting"
    /\ startup' = "failed"
    /\ SetLog(logError(Log, "Error starting server", error, fault))
    /\ UNCHANGED <<revision, handlers, exitTimer, exit, channelOpen, toolVars>>

\* server.connect throws or rejects: the catch block of main().
ConnectFail(error, fault) ==
    /\ Alive /\ startup = "connecting"
    /\ startup' = "failed"
    /\ LET l == logError(Log, "Error starting server", error, fault)
       IN IF l.threw
          THEN FatalInMain(l, "TypeError")
          ELSE SetLog(l) /\ exitTimer' = TRUE
    /\ UNCHANGED <<revision, handlers, exit, channelOpen, toolVars>>

\* The one-second timer set by a failed startup fires: process.exit(1).
TimerFire ==
    /\ Alive /\ exitTimer
    /\ exitTimer' = FALSE
    /\ exit' = <<1>>
    /\ UNCHANGED <<revision, startup, handlers, channelOpen, logVars, toolVars>>

\* --------------------------------------------------------- process events
\* What the host and the runtime can raise.
TransportErrors == {"EPIPE"}
ConnectErrors == {"connect failed"}
StrayKinds == {"uncaughtException", "unhandledRejection"}
\* An exception is an Error object; a promise can be rejected with nothing.
StrayReasons(kind) == IF kind = "uncaughtException" THEN {"boom"} ELSE {"boom", Falsy}

\* A callback that throws out of logError: the runtime ends the process.
HandlerCrash == exit' = <<7>>

\* transport.onerror
TransportError(error, fault) ==
    /\ Serving /\ channelOpen
    /\ LET l == logError(Log, "Transport error occurred", error, fault)
       IN /\ SetLog(l)
          /\ IF l.threw THEN HandlerCrash ELSE UNCHANGED exit
    /\ UNCHANGED <<revision, startup, handlers, exitTimer, channelOpen, toolVars>>

\* transport.onclose: the host closed the channel.
TransportClose ==
    /\ Serving /\ channelOpen
    /\ channelOpen' = FALSE
    /\ console' = Append(console, <<"Transport closed">>)
    /\ UNCHANGED <<revision, startup, handlers, exitTimer, exit, logDir, logFile, toolVars>>

\* Nothing is left to wait for after the channel closed: the process ends.
ProcessEnd ==
    /\ Serving /\ ~channelOpen
    /\ \A i \in DOMAIN subprocs : subprocs[i].status # "running"
    /\ exit' = <<0>>
    /\ UNCHANGED <<revision, startup, handlers, exitTimer, channelOpen, logVars, toolVars>>

\* An exception or rejection nobody caught.  With the process.on handlers of
\* main() registered it is logged; without them the runtime prints it and
\* ends the process with code 1.
StrayError(kind, reason, fault) ==
    /\ Alive
    /\ IF handlers
       THEN LET l == logError(Log,
                       IF kind = "uncaughtException" THEN "Uncaught exception"
                       ELSE "Unhandled rejection", reason, fault)
            IN /\ SetLog(l)
               /\ IF l.threw THEN HandlerCrash ELSE UNCHANGED exit
       ELSE /\ console' = Append(console, <<"Uncaught", reason>>)
            /\ exit' = <<1>>
            /\ UNCHANGED <<logDir, logFile>>
    /\ UNCHANGED <<revision, startup, handlers, exitTimer, channelOpen, toolVars>>

\* ---------------------------------------------------------------- tools
\* A ToolResult: the content items and the isError flag (FALSE: not set).
\* A response is what a handler's promise settled with.
TextResult(text, isError) ==
    [content |-> << [type |-> "text", text |-> text] >>, isError |-> isError]

Fulfilled(id, result) == [req |-> id, settled |-> "fulfilled", result |-> result]
Rejected(id, error) ==
    [req |-> id, settled |-> "rejected", result |-> TextResult(error, FALSE)]

\* `${error}` for an Error object.
ErrorToString(message) == <<"Error: ">> \o message

\* runAppleScript(script), up to its await: exec starts the subprocess.
runAppleScript(id, script) ==
    [req |-> id, command |-> CommandLine(script), status |-> "running", out |-> <<>>]

\* The Error that the catch block of runAppleScript throws: its message.
runAppleScriptError(error) ==
    <<"Failed to execute AppleScript: ">> \o
    (IF revision = "keyboard" THEN ErrorToString(<<error>>) ELSE <<error>>)

\* `${error}` (keyboard revision) or error.message (element revision) in the
\* catch blocks of the handlers.
Describe(message) ==
    IF revision = "keyboard" THEN ErrorToString(message) ELSE message

\* The success text built from the formatted message.
SendSuccessFormatted(contactName, message) ==
    TextResult(<<"Message sent to ">> \o contactName \o <<": ", DQ>>
               \o formatWhatsAppMessage(message) \o <<DQ>>, FALSE)

\* send-whatsapp-message: the return after the await.
SendSuccess(contactName, message) ==
    TextResult(<<"Message sent to ">> \o contactName \o <<": ", DQ>> \o message \o <<DQ>>,
               FALSE)

\* The handler without its catch block: the error of runAppleScript escapes.
SendFailureEscapes(id, message) == Rejected(id, message)

\* send-whatsapp-message: the catch block.
SendFailure(id, message) ==
    Fulfilled(id, TextResult(<<"Error sending message: ">> \o Describe(message), TRUE))

\* The comparison without toLowerCase.
StatusSuccessExact(result) ==
    TextResult(IF result = <<"t", "r", "u", "e">>
               THEN <<"WhatsApp is currently running.">>
               ELSE <<"WhatsApp is not currently running. Please start WhatsApp before trying to send messages.">>,
               FALSE)

\* check-whatsapp-status: the return after the await.
StatusSuccess(result) ==
    TextResult(IF ToLowerCase(result) = <<"t", "r", "u", "e">>
               THEN <<"WhatsApp is currently running.">>
               ELSE <<"WhatsApp is not currently running. Please start WhatsApp before trying to send messages.">>,
               FALSE)

\* check-whatsapp-status: the catch block.
StatusFailure(id, message) ==
    Fulfilled(id, TextResult(<<"Error checking WhatsApp status: ">> \o Describe(message), TRUE))

\* list-recent-contacts: the fixed text.
LimitationText ==
    <<"Due to WhatsApp's privacy protections, listing contacts programmatically is limited. ",
      "Please specify the exact contact name when sending messages.">>

CanInvoke == Serving /\ channelOpen

\* The parameter schema of send-whatsapp-message: contactName and message are
\* both z.string(), so each must be present and may be any string, the empty
\* one included.  The arguments of a call are a function from the names of the
\* fields it carries to their values.
SendFields == {"contactName", "message"}
SendSchema(args) == SendFields \subseteq DOMAIN args

\* A send-whatsapp-message call whose arguments the schema refuses: the
\* handler is not called.
RefuseSend(args) ==
    /\ CanInvoke
    /\ ~SendSchema(args)
    /\ refusals' = Append(refusals, [op |-> "send", args |-> args])
    /\ UNCHANGED <<revision, procVars, logVars, requests, subprocs, responses>>

\* send-whatsapp-message, up to the await of runAppleScript.
SendMessage(contactName, message) ==
    /\ CanInvoke
    /\ SendSchema([contactName |-> contactName, message |-> message])
    /\ requests' = Append(requests,
           [op |-> "send", contactName |-> contactName, message |-> message])
    /\ subprocs' = Append(subprocs,
           runAppleScript(Len(requests) + 1, SendScript(revision, contactName, message)))
    /\ UNCHANGED <<revision, procVars, logVars, responses, refusals>>

\* check-whatsapp-status, up to the await of runAppleScript.
CheckStatus ==
    /\ CanInvoke
    /\ requests' = Append(requests,
           [op |-> "status", contactName |-> <<>>, message |-> <<>>])
    /\ subprocs' = Append(subprocs, runAppleScript(Len(requests) + 1, ProbeScript))
    /\ UNCHANGED <<revision, procVars, logVars, responses, refusals>>

\* list-recent-contacts asking the probe before it answers.
ListContactsProbing ==
    /\ CanInvoke
    /\ requests' = Append(requests,
           [op |-> "list", contactName |-> <<>>, message |-> <<>>])
    /\ subprocs' = Append(subprocs,
           [runAppleScript(Len(requests) + 1, ProbeScript) EXCEPT !.status = "ok"])
    /\ responses' = Append(responses,
           Fulfilled(Len(requests) + 1, TextResult(LimitationText, FALSE)))
    /\ UNCHANGED <<revision, procVars, logVars, refusals>>

\* list-recent-contacts: the whole handler.
ListContacts ==
    /\ CanInvoke
    /\ requests' = Append(requests,
           [op |-> "list", contactName |-> <<>>, message |-> <<>>])
    /\ responses' = Append(responses,
           Fulfilled(Len(requests) + 1, TextResult(LimitationText, FALSE)))
    /\ UNCHANGED <<revision, procVars, logVars, subprocs, refusals>>

\* What a subprocess prints: the send script returns one of its two strings
\* and the probe a boolean, each followed by a line end.  The full model has
\* the send script print its first string only.
SendOutputs ==
    { <<"Message sent using optimized timing", NL>>,
      <<"Failed to send message: ", "errMsg", NL>> }
BooleanOutputs == { <<"t", "r", "u", "e", NL>>, <<"f", "a", "l", "s", "e", NL>> }
Outputs(op) ==
    IF op = "send" THEN {<<"Message sent using optimized timing", NL>>} ELSE BooleanOutputs

\* Every text a probe could print: a word, in any mix of upper and lower
\* case, between white space of up to MaxPad characters.
RECURSIVE Casings(_)
Casings(w) ==
    IF w = <<>> THEN {<<>>}
    ELSE {<<c>> \o rest : c \in {Head(w)} \cup {u \in {"T", "R", "U", "E", "F"} : LowerOf(u) = Head(w)},
                          rest \in Casings(Tail(w))}

RECURSIVE Padding(_)
Padding(n) ==
    IF n = 0 THEN {<<>>}
    ELSE Padding(n - 1) \cup {Append(p, c) : p \in Padding(n - 1), c \in WhiteSpace}

ProbeWords ==
    Casings(<<"t", "r", "u", "e">>) \cup Casings(<<"f", "a", "l", "s", "e">>)
    \cup { <<>>, <<"t", "r", "u", "e", "x">>, <<"t", "r", "u">>, <<"t", "r", SP, "u", "e">>, <<"1">> }

ProbeOutputs ==
    {a \o w \o b : a \in Padding(MaxPad), w \in ProbeWords, b \in Padding(MaxPad)}

\* How exec can fail: the message of the error it rejects with.
ExecErrors == {"Command failed: osascript", "spawn /bin/sh EAGAIN"}

\* A send handler that reads what the script returned and answers with an
\* error result when it is the script's failure text.
ExecSucceedReadsOutput(i, stdout) ==
    /\ Alive
    /\ i \in DOMAIN subprocs /\ subprocs[i].status = "running"
    /\ LET id == subprocs[i].req
           r == requests[id]
           result == Trim(stdout)
       IN /\ subprocs' = [subprocs EXCEPT ![i].status = "ok", ![i].out = stdout]
          /\ responses' = Append(responses,
                 Fulfilled(id, IF r.op # "send" THEN StatusSuccess(result)
                               ELSE IF result # <<>> /\ result[1] = "Failed to send message: "
                               THEN TextResult(<<"Error sending message: ">> \o result, TRUE)
                               ELSE SendSuccess(r.contactName, r.message)))
    /\ UNCHANGED <<revision, procVars, logVars, requests, refusals>>

\* The subprocess exits with code 0: runAppleScript returns stdout.trim() and
\* the handler that awaited it returns its result.
ExecSucceed(i, stdout) ==
    /\ Alive
    /\ i \in DOMAIN subprocs /\ subprocs[i].status = "running"
    /\ LET id == subprocs[i].req
           r == requests[id]
       IN /\ subprocs' = [subprocs EXCEPT ![i].status = "ok", ![i].out = stdout]
          /\ responses' = Append(responses,
                 Fulfilled(id, IF r.op = "send"
                               THEN SendSuccess(r.contactName, r.message)
                               ELSE StatusSuccess(Trim(stdout))))
    /\ UNCHANGED <<revision, procVars, logVars, requests, refusals>>

\* A handler whose catch block also ends the process.
ExecFailExits(i, error) ==
    /\ Alive
    /\ i \in DOMAIN subprocs /\ subprocs[i].status = "running"
    /\ LET id == subprocs[i].req
           r == requests[id]
       IN /\ subprocs' = [subprocs EXCEPT ![i].status = "failed", ![i].out = <<error>>]
          /\ console' = Append(console, <<"AppleScript execution error:", error>>)
          /\ responses' = Append(responses,
                 IF r.op = "send"
                 THEN SendFailure(id, runAppleScriptError(error))
                 ELSE StatusFailure(id, runAppleScriptError(error)))
    /\ exit' = <<1>>
    /\ UNCHANGED <<revision, startup, handlers, exitTimer, channelOpen, logDir, logFile, requests,
                   refusals>>

\* The subprocess fails: the catch block of runAppleScript logs and throws,
\* and the catch block of the handler that awaited it returns its result.
ExecFail(i, error) ==
    /\ Alive
    /\ i \in DOMAIN subprocs /\ subprocs[i].status = "running"
    /\ LET id == subprocs[i].req
           r == requests[id]
       IN /\ subprocs' = [subprocs EXCEPT ![i].status = "failed", ![i].out = <<error>>]
          /\ console' = Append(console, <<"AppleScript execution error:", error>>)
          /\ responses' = Append(responses,
                 IF r.op = "send"
                 THEN SendFailure(id, runAppleScriptError(error))
                 ELSE StatusFailure(id, runAppleScriptError(error)))
    /\ UNCHANGED <<revision, procVars, logDir, logFile, requests, refusals>>

\* ------------------------------------------------------- specifications
\* The send-whatsapp-message call the host sends in the full model.
SampleSends ==
    { <<<<"x", SQ, "x">>, <<"x", NL, "x">>>> }

\* The send-whatsapp-message calls that lack a field.
MalformedSends ==
    {[k \in D |-> <<"x">>] : D \in (SUBSET SendFields) \ {SendFields}}

\* The events delivered so far: tool calls and logged errors.
NumEvents == Len(requests) + Len(refusals) + NumLogCalls

Next ==
    \/ ConnectOK
    \/ \E e \in ConnectErrors, f \in LogFaults : ConnectFail(e, f)
    \/ TimerFire
    \/ \E e \in TransportErrors, f \in LogFaults :
          NumEvents < MaxEvents /\ TransportError(e, f)
    \/ TransportClose
    \/ ProcessEnd
    \/ \E k \in StrayKinds, f \in LogFaults : \E r \in StrayReasons(k) :
          NumEvents < MaxEvents /\ StrayError(k, r, f)
    \/ \E p \in SampleSends : NumEvents < MaxEvents /\ SendMessage(p[1], p[2])
    \/ NumEvents < MaxEvents /\ RefuseSend([message |-> <<"x">>])
    \/ NumEvents < MaxEvents /\ CheckStatus
    \/ NumEvents < MaxEvents /\ ListContacts
    \/ \E i \in DOMAIN subprocs :
          \E out \in Outputs(requests[subprocs[i].req].op) : ExecSucceed(i, out)
    \/ \E i \in DOMAIN subprocs, e \in ExecErrors : ExecFail(i, e)

Spec == Init /\ [][Next]_vars

\* The scheduling the runtime guarantees: a pending timer fires.
FairSpec == Spec /\ WF_vars(TimerFire)

\* One send-whatsapp-message call: with every contact name of up to MaxNameLen
\* characters and every message of up to MaxLen characters, or lacking a field.
TextNext ==
    \/ ConnectOK
    \/ /\ requests = <<>> /\ refusals = <<>>
       /\ \E c \in Strings(MaxNameLen), m \in Strings(MaxLen) : SendMessage(c, m)
    \/ /\ requests = <<>> /\ refusals = <<>>
       /\ \E a \in MalformedSends : RefuseSend(a)
    \/ \E i \in DOMAIN subprocs, out \in SendOutputs : ExecSucceed(i, out)
    \/ \E i \in DOMAIN subprocs, e \in ExecErrors : ExecFail(i, e)

TextSpec == Init /\ [][TextNext]_vars

\* One check-whatsapp-status call with every output of ProbeOutputs.
ProbeNext ==
    \/ ConnectOK
    \/ requests = <<>> /\ CheckStatus
    \/ \E i \in DOMAIN subprocs, out \in ProbeOutputs : ExecSucceed(i, out)
    \/ \E i \in DOMAIN subprocs, e \in ExecErrors : ExecFail(i, e)

ProbeSpec == Init /\ [][ProbeNext]_vars

\* ---------------------------------------------------------------- claims
OpOf(i) == requests[subprocs[i].req].op
Running(i) == subprocs[i].status = "running"
ResponsesTo(id) == {k \in DOMAIN responses : responses[k].req = id}
Contains(text, token) == \E k \in DOMAIN text : text[k] = token

\* C1: at most one automation script runs at any time: the subprocesses of
\* tool calls never overlap, and they start in the order the calls arrived.
OneScriptAtATime ==
    /\ \A i, j \in DOMAIN subprocs : Running(i) /\ Running(j) => i = j
    /\ \A i, j \in DOMAIN subprocs : i < j => subprocs[i].req < subprocs[j].req

\* C2: for every contact name and message, the command line read first by the
\* shell and then by the scripting language runs exactly the steps of the
\* template and types exactly the caller's two texts: the shell word is one
\* closed literal and no part of a text is read as script code.
LiteralsRoundTrip ==
    \A i \in DOMAIN subprocs :
        OpOf(i) = "send" =>
            LET r == requests[subprocs[i].req]
                read == ShellArgument(subprocs[i].command)
            IN /\ read.ok
               /\ Interpret(read.arg) = IntendedSteps(revision, r.contactName, r.message)

PlainWithNewlines(text) == \A k \in DOMAIN text : text[k] \in {"x", NL}
NoBackslash(text) == \A k \in DOMAIN text : text[k] # BS

\* C3: for a message of plain characters and newlines, the script holds no
\* raw newline from the message, and the message statement types the message
\* with a line break where each newline was.
NewlinesBecomeLineBreaks ==
    \A i \in DOMAIN subprocs :
        LET r == requests[subprocs[i].req]
            texts == TypedTexts(Interpret(ShellArgument(subprocs[i].command).arg))
        IN (OpOf(i) = "send" /\ PlainWithNewlines(r.message) /\ NoBackslash(r.contactName))
           => /\ ~Contains(formatWhatsAppMessage(r.message), NL)
              /\ Len(texts) = 2
              /\ texts[2] = r.message

\* C4: whenever the subprocess of a send or status call has failed, the call
\* is answered by a returned ToolResult with isError = TRUE and exactly one
\* text item that holds the error description; no handler ever rejects.
FailureBecomesErrorResult ==
    /\ \A k \in DOMAIN responses : responses[k].settled = "fulfilled"
    /\ \A i \in DOMAIN subprocs :
          subprocs[i].status = "failed" =>
              /\ Cardinality(ResponsesTo(subprocs[i].req)) = 1
              /\ \A k \in ResponsesTo(subprocs[i].req) :
                    LET res == responses[k].result
                    IN /\ res.isError = TRUE
                       /\ Len(res.content) = 1
                       /\ res.content[1].type = "text"
                       /\ Contains(res.content[1].text, subprocs[i].out[1])

FailureAnswered ==
    \E i, j \in DOMAIN subprocs :
        /\ subprocs[i].status = "failed" /\ OpOf(i) = "send"
        /\ subprocs[j].status = "failed" /\ OpOf(j) = "status"

\* The sixteen spellings of "true" in upper and lower case.
TrueSpellings ==
    {<<a, b, c, d>> : a \in {"t", "T"}, b \in {"r", "R"}, c \in {"u", "U"}, d \in {"e", "E"}}

\* An output that is a spelling of "true" between white space.
SaysTrue(out) ==
    \E a \in Padding(MaxPad), b \in Padding(MaxPad), w \in TrueSpellings : out = a \o w \o b

RunningText == <<"WhatsApp is currently running.">>
NotRunningText ==
    <<"WhatsApp is not currently running. Please start WhatsApp before trying to send messages.">>

\* C5: check-status answers with the 'running' text exactly when the output of
\* the probe (what runAppleScript returns: the subprocess's standard output
\* without the white space around it) is "true" in any mix of upper and lower
\* case, and with the 'not running' text for every other output; isError is set
\* in neither case.
StatusReportsOutput ==
    \A i \in DOMAIN subprocs :
        (OpOf(i) = "status" /\ subprocs[i].status = "ok") =>
            /\ Cardinality(ResponsesTo(subprocs[i].req)) = 1
            /\ \A k \in ResponsesTo(subprocs[i].req) :
                  /\ responses[k].settled = "fulfilled"
                  /\ responses[k].result =
                        TextResult(IF SaysTrue(subprocs[i].out)
                                   THEN RunningText ELSE NotRunningText, FALSE)

StatusUpperCaseTrue ==
    \E i \in DOMAIN subprocs :
        /\ OpOf(i) = "status" /\ subprocs[i].status = "ok"
        /\ subprocs[i].out = <<"T", "R", "U", "E", NL>>
        /\ \E k \in ResponsesTo(subprocs[i].req) :
              responses[k].result.content[1].text = RunningText

\* C6: a list-contacts call never starts a subprocess and is answered with the
\* fixed limitation text and no error flag, whatever calls came before it.
ListNeverProbes ==
    \A id \in DOMAIN requests :
        requests[id].op = "list" =>
            /\ \A i \in DOMAIN subprocs : subprocs[i].req # id
            /\ Cardinality(ResponsesTo(id)) = 1
            /\ \A k \in ResponsesTo(id) :
                  responses[k] = Fulfilled(id, TextResult(LimitationText, FALSE))

ListAfterFailure ==
    \E id \in DOMAIN requests :
        /\ requests[id].op = "list"
        /\ \E i \in DOMAIN subprocs :
              /\ subprocs[i].req < id
              /\ subprocs[i].status = "failed"
              /\ \E k \in ResponsesTo(id), n \in ResponsesTo(subprocs[i].req) : n < k

\* C7: when send-message succeeds, the result holds exactly one text item,
\* 'Message sent to <contactName>: "<message>"' with the two texts as the
\* caller gave them, and isError is not set.
SuccessTextUsesOriginals ==
    \A i \in DOMAIN subprocs :
        (OpOf(i) = "send" /\ subprocs[i].status = "ok") =>
            LET r == requests[subprocs[i].req]
            IN /\ Cardinality(ResponsesTo(subprocs[i].req)) = 1
               /\ \A k \in ResponsesTo(subprocs[i].req) :
                     /\ responses[k].settled = "fulfilled"
                     /\ responses[k].result.isError = FALSE
                     /\ Len(responses[k].result.content) = 1
                     /\ responses[k].result.content[1] =
                           [type |-> "text",
                            text |-> <<"Message sent to ">> \o r.contactName
                                     \o <<": ", DQ>> \o r.message \o <<DQ>>]

SuccessWithEscapedText ==
    \E i \in DOMAIN subprocs :
        /\ OpOf(i) = "send" /\ subprocs[i].status = "ok"
        /\ requests[subprocs[i].req].contactName = <<DQ>>
        /\ requests[subprocs[i].req].message = <<DQ, NL>>

\* C8: a step in which a tool call is answered leaves the process serving,
\* and the process exits with code 1 only when the timer of a failed startup
\* fires or when an error is raised that no handler is registered for, never
\* in a step of a tool handler.
HandlersNeverExit ==
    [][ /\ (responses' # responses => exit' = <<>> /\ startup' = "connected")
        /\ (exit = <<>> /\ exit' = <<1>>
               => /\ toolVars' = toolVars
                  /\ \/ startup = "failed" /\ exitTimer
                     \/ ~handlers /\ console' # console) ]_vars

ServingAfterFailure ==
    /\ Serving
    /\ \E i \in DOMAIN subprocs :
          subprocs[i].status = "failed" /\ ResponsesTo(subprocs[i].req) # {}

StartupErrorLogged ==
    \E n \in DOMAIN console :
        IsErrorLine(console[n]) /\ console[n][2] = "Error starting server"

\* C9: if startup fails, the error is logged first and the process then
\* eventually exits with code 1: it is never in the failed state without the
\* log line, and it never stays alive for ever after the failure.
StartupFailureExits ==
    /\ [](startup = "failed" => StartupErrorLogged)
    /\ (startup = "failed") ~> (exit = <<1>>)

StartupFailedAndExited == startup = "failed" /\ exit = <<1>> /\ ~exitTimer

NumFailedWrites == Cardinality({n \in DOMAIN console : IsFailedWrite(console[n])})

\* C10: logError never throws: every call either appends its entry to the
\* file or reports the failed write on the console, and its caller goes on as
\* after a successful write: main().catch never runs, no callback ends the
\* process, and a failed startup has its exit timer set.
LogFailureContained ==
    /\ NumLogCalls = Len(logFile) + NumFailedWrites
    /\ \A n \in DOMAIN console :
          IsErrorLine(console[n]) => console[n][2] # "Fatal error in main"
    /\ exit # <<7>>
    /\ (startup = "failed" /\ Alive) => exitTimer

FailedWriteAtStartup ==
    /\ startup = "failed" /\ exitTimer
    /\ \E n \in DOMAIN console : console[n] = FailedWriteLine("stringify")

\* C11: a send-message call whose contactName is missing or is the empty
\* string is refused before the handler runs: the handler is never called with
\* an empty contactName, so no script is built or run for one, and every call
\* that lacks the field is among the refused calls and has no subprocess.
EmptyContactRefused ==
    /\ \A id \in DOMAIN requests :
          requests[id].op = "send" => requests[id].contactName # <<>>
    /\ \A i \in DOMAIN subprocs :
          OpOf(i) = "send" => requests[subprocs[i].req].contactName # <<>>
    /\ \A k \in DOMAIN refusals : ~SendSchema(refusals[k].args)

Count(text, token) == Len(SelectSeq(text, LAMBDA t : t = token))

\* The script text the handler of a tool call hands to runAppleScript.
ScriptFor(rev, request) ==
    IF request.op = "send"
    THEN SendScript(rev, request.contactName, request.message)
    ELSE ProbeScript

\* A subprocess started in this step, and the command line of every other
\* one left as it was.
Started(i) == i \in DOMAIN subprocs' /\ i \notin DOMAIN subprocs
CommandsKept == \A i \in DOMAIN subprocs : subprocs'[i].command = subprocs[i].command

RoundTrips(script, command) ==
    LET read == ShellArgument(command)
    IN /\ Len(command) = Len(script) + 3 + 3 * Count(script, SQ)
       /\ Count(command, SQ) = 2 + 3 * Count(script, SQ)
       /\ read.ok
       /\ read.arg = script

\* C12: for every script text, the command line a subprocess is started with
\* holds four characters (close quote, backslash, quote, reopen quote) for
\* each single quote of the script, and the shell reads it as one closed word
\* that equals the script character for character: no single quote of the
\* script ends the shell literal.  The command line never changes afterwards.
ShellLayerRoundTrips ==
    [][ /\ CommandsKept
        /\ \A i \in DOMAIN subprocs' :
              Started(i) =>
                  LET script == ScriptFor(revision', requests'[subprocs'[i].req])
                  IN RoundTrips(script, subprocs'[i].command) ]_vars

SingleQuotesInBothTexts ==
    \E i \in DOMAIN subprocs :
        /\ OpOf(i) = "send"
        /\ requests[subprocs[i].req].contactName = <<SQ>>
        /\ requests[subprocs[i].req].message = <<SQ, SQ>>
        /\ Count(ShellArgument(subprocs[i].command).arg, SQ) >= 3

\* The statements of the send scripts, as the token patterns they are written
\* with in the two templates.
Activate == { <<"tell application ", DQ, "WhatsApp", DQ, " to activate">> }
Delays ==
    { <<"delay 1 -- Reduced from 4 to 1">>, <<"delay 0.5 -- Reduced from 2 to 0.5">>,
      <<"delay 0.5 -- Reduced from 1.5 to 0.5">>, <<"delay 1.5 -- Reduced from 6 to 1.5">>,
      <<"delay 0.3 -- Reduced from 1 to 0.3">>, <<"delay 0.8 -- Reduced from 3 to 0.8">>,
      <<"delay 1.5">>, <<"delay 0.3">>, <<"delay 0.5">>, <<"delay 1">> }
FocusSearch ==
    { <<"keystroke ", DQ, "f", DQ, " using {command down}">>,
      <<"click text field ", DQ, "Search or start new chat", DQ>>,
      <<"click at {searchX, searchY}">> }
ClearSearch ==
    { <<"keystroke ", DQ, "a", DQ, " using {command down}", NL,
        "keystroke (ASCII character 8) -- Backspace">> }
TypeLiteral(literal) == { <<"keystroke ", DQ>> \o literal \o <<DQ, NL>> }
MoveDown ==
    { <<"keystroke (ASCII character 31) -- first down arrow">>,
      <<"keystroke (ASCII character 31) -- second down arrow">> }
Confirm ==
    { <<"keystroke return -- press enter">>, <<"keystroke return">>,
      <<"key code 36">>, <<"key code 36 -- Press Enter to send">> }

At(script, k, pattern) ==
    /\ script[k] = pattern[1]
    /\ k + Len(pattern) - 1 <= Len(script)
    /\ \A j \in DOMAIN pattern : script[k + j - 1] = pattern[j]
AtAny(script, k, patterns) == \E p \in patterns : At(script, k, p)

Least(S) == CHOOSE k \in S : \A j \in S : k <= j
Greatest(S) == CHOOSE k \in S : \A j \in S : j <= k

\* The tokens a statement of the templates begins with, and those that open
\* and close the branches of a try block.
StatementTokens ==
    {p[1] : p \in Activate \cup Delays \cup FocusSearch \cup ClearSearch
                    \cup MoveDown \cup Confirm}
    \cup {"keystroke "}
TryTokens == {"try", "on error", "on error errMsg", "end try"}

Starts(script) == {k \in DOMAIN script : script[k] \in StatementTokens}

\* Position k is on the path the script runs when no statement fails: it is
\* not in the `on error` branch of a try block.
OnPathOf(script, tries, k) ==
    LET before == {j \in tries : j < k}
    IN before = {} \/ script[Greatest(before)] \in {"try", "end try"}
OnPath(script, k) ==
    OnPathOf(script, {j \in DOMAIN script : script[j] \in TryTokens}, k)

\* The statements on that path.
PathStarts(script) ==
    LET tries == {j \in DOMAIN script : script[j] \in TryTokens}
    IN {k \in Starts(script) : OnPathOf(script, tries, k)}

\* The first statement of the given kind after position `from` among the
\* statements `path`, or Len(script) + 1 when there is none.
FirstOnPath(script, path, patterns, from) ==
    LET hits == {k \in path : k > from /\ AtAny(script, k, patterns)}
    IN IF hits = {} THEN Len(script) + 1 ELSE Least(hits)

\* The position of the last of the steps when they occur one after the other
\* in the given order, or Len(script) + 1 when they do not.
RECURSIVE Follow(_, _, _, _)
Follow(script, path, steps, from) ==
    IF steps = <<>> THEN from
    ELSE LET p == FirstOnPath(script, path, Head(steps), from)
         IN IF p > Len(script) THEN p ELSE Follow(script, path, Tail(steps), p)

InOrder(script, steps) == Follow(script, PathStarts(script), steps, 0) <= Len(script)

\* The statements that type a text (a keystroke of a literal that is not a
\* command-key shortcut).
TypingPositions(script) ==
    {k \in Starts(script) :
        /\ script[k] = "keystroke " /\ script[k + 1] = DQ
        /\ ~(script[k + 3] = DQ /\ script[k + 4] = " using {command down}")}

ClaimedSteps(contactLiteral, messageLiteral) ==
    <<Activate, Delays, FocusSearch, ClearSearch, TypeLiteral(contactLiteral), Delays,
      MoveDown, MoveDown, Confirm, TypeLiteral(messageLiteral), Confirm>>

ElementRevisionSteps(contactLiteral, messageLiteral) ==
    <<Activate, Delays, FocusSearch, TypeLiteral(contactLiteral), Delays,
      Confirm, TypeLiteral(messageLiteral), Confirm>>

\* The contact is typed after the search control is focused, the message
\* after the selection is confirmed, and nothing else is typed.
TypedInTurn(script, contactLiteral, messageLiteral) ==
    LET typed == TypingPositions(script)
        path == PathStarts(script)
    IN /\ Cardinality(typed) = 2
       /\ typed \subseteq path
       /\ At(script, Least(typed), <<"keystroke ", DQ>> \o contactLiteral \o <<DQ, NL>>)
       /\ At(script, Greatest(typed), <<"keystroke ", DQ>> \o messageLiteral \o <<DQ, NL>>)
       /\ FirstOnPath(script, path, FocusSearch, 0) < Least(typed)
       /\ FirstOnPath(script, path, Confirm, Least(typed)) < Greatest(typed)
       /\ FirstOnPath(script, path, Confirm, Greatest(typed)) <= Len(script)

StepsOrdered(rev, request, command) ==
    request.op = "send" =>
        LET script == ShellArgument(command).arg
            contactLiteral == EscapeQuotes(request.contactName)
            messageLiteral == formatWhatsAppMessage(request.message)
        IN /\ rev = "keyboard" =>
                 InOrder(script, ClaimedSteps(contactLiteral, messageLiteral))
           /\ rev = "element" =>
                 /\ InOrder(script, ElementRevisionSteps(contactLiteral, messageLiteral))
                 /\ \A k \in Starts(script) : ~AtAny(script, k, MoveDown)
                 /\ \A k \in Starts(script) :
                       AtAny(script, k, ClearSearch) =>
                           /\ ~OnPath(script, k)
                           /\ k < Least(TypingPositions(script))
           /\ TypedInTurn(script, contactLiteral, messageLiteral)

NumUnlogged == Cardinality({n \in DOMAIN console : console[n][1] = "Uncaught"})

\* C14: every uncaught exception or unhandled rejection, at any point of the
\* life of the process (while server.connect is pending too), is logged
\* through logError: none is left to the runtime to print.
StrayErrorsLogged == NumUnlogged = 0

\* C15: the result of a send-message call depends only on whether the
\* subprocess failed, never on what the script printed: isError is set exactly
\* when the subprocess failed, and after an exit with code 0 the result is the
\* success text and holds nothing of the output, also when the output is the
\* script's 'Failed to send message: ...'.
SendResultIgnoresOutput ==
    \A i \in DOMAIN subprocs :
        (OpOf(i) = "send" /\ ~Running(i)) =>
            /\ Cardinality(ResponsesTo(subprocs[i].req)) = 1
            /\ \A k \in ResponsesTo(subprocs[i].req) :
                  LET res == responses[k].result
                  IN /\ res.isError = (subprocs[i].status = "failed")
                     /\ subprocs[i].status = "ok" =>
                            /\ res.content[1].text[1] = "Message sent to "
                            /\ \A n \in DOMAIN subprocs[i].out :
                                   subprocs[i].out[n] = NL
                                   \/ ~Contains(res.content[1].text, subprocs[i].out[n])

SuccessDespiteFailureText ==
    \E i \in DOMAIN subprocs :
        /\ OpOf(i) = "send" /\ subprocs[i].status = "ok"
        /\ subprocs[i].out = <<"Failed to send message: ", "errMsg", NL>>
        /\ \E k \in ResponsesTo(subprocs[i].req) : responses[k].result.isError = FALSE

====
